---- MODULE Spec2Model ----
(***************************************************************************)
(* Model of cogs/automod.py (Kurisu): the AutoMod keyword commands         *)
(* add_keyword, delete_keyword and search_keyword, run against the guild's *)
(* AutoMod rules held by Discord (the rule store).                         *)
(*                                                                         *)
(* Strings are TLA+ strings; Python's `in` on strings is substring         *)
(* containment, Python's `in` on lists is membership, list.append adds at  *)
(* the end and list.remove deletes the first equal element.                *)
(***************************************************************************)
EXTENDS Integers, Sequences, FiniteSets, TLC

VARIABLES
    guildRules,   \* the guild's AutoMod rules as the store holds them, in fetch order
    ops,          \* the add_keyword / delete_keyword invocations, by arrival number
    edits,        \* the rule.edit calls the store has received, in arrival order
    search,       \* the search_keyword invocation: its word and what it sent back
    choices,      \* the rules_autocomplete invocation: its input and the choices returned
    events,       \* the on_automod_action handlers, by arrival number
    actions,      \* bot.actions, the process-wide action log
    kicks         \* the member.kick calls made, in call order

vars == <<guildRules, ops, edits, search, choices, events, actions, kicks>>

\* what the listener reads and writes besides the rule store
reactorVars == <<events, actions, kicks>>

----------------------------------------------------------------------------
(* Bounds of the model *)

\* add_keyword / delete_keyword invocations in one behaviour
MaxOps == 2

\* longest keyword_filter / regex_patterns list of a rule in the initial store
MaxInitLen == 2

\* rules in the snapshot that search_keyword scans
MaxSearchRules == 2

\* AutoMod action events in one behaviour
MaxEvents == 2

----------------------------------------------------------------------------
(* Values *)

\* keywords a rule's lists hold at the start
StoredKeywords == {"free", "money", "prize"}

\* keywords the staff add and delete
Keywords == {"money", "prize"}

\* the rule ids a command can be given: 1 and 2 exist, 3 is not in the guild
RuleRefs == {1, 2, 3}

\* AutoModRuleTriggerType members used here
TriggerTypes == {"keyword", "member_profile", "spam"}

None == "None"

\* AutoModTrigger: the type and the two lists the commands read and write
Trigger(type, keyword_filter, regex_patterns) ==
    [type |-> type, keyword_filter |-> keyword_filter, regex_patterns |-> regex_patterns]

\* AutoModRule: the fields the cog reads
Rule(id, name, trigger) == [id |-> id, name |-> name, trigger |-> trigger]

\* sequences over S without repetition, of length at most n
RECURSIVE DistinctSeqs(_, _)
DistinctSeqs(S, n) ==
    IF n = 0 THEN {<<>>}
    ELSE LET shorter == DistinctSeqs(S, n - 1)
         IN  shorter \cup
             UNION {{Append(t, x) : x \in S \ {t[i] : i \in 1..Len(t)}} :
                    t \in {u \in shorter : Len(u) = n - 1}}

NoDuplicates(s) == \A i, j \in 1..Len(s) : s[i] = s[j] => i = j

----------------------------------------------------------------------------
(* Python list and string primitives *)

\* x in lst
InList(x, lst) == \E i \in 1..Len(lst) : lst[i] = x

\* lst.insert(0, x) in place of append
ListInsertFront(lst, x) == <<x>> \o lst

\* lst.append(x)
ListAppend(lst, x) == Append(lst, x)

\* lst.pop() in place of remove: deletes the last element
ListRemovePop(lst, x) == SubSeq(lst, 1, Len(lst) - 1)

\* lst.pop(0) in place of remove: deletes the first element
ListRemoveHead(lst, x) == Tail(lst)

\* lst.remove(x): deletes the first element equal to x (x is known to be in lst)
ListRemove(lst, x) ==
    LET first == CHOOSE i \in 1..Len(lst) :
                     lst[i] = x /\ \A j \in 1..(i - 1) : lst[j] # x
    IN  SubSeq(lst, 1, first - 1) \o SubSeq(lst, first + 1, Len(lst))

\* word in keyword (substring, case-sensitive)
InStr(word, keyword) ==
    \E i \in 0..(Len(keyword) - Len(word)) :
        SubSeq(keyword, i + 1, i + Len(word)) = word

----------------------------------------------------------------------------
(* The rule store: guild.fetch_automod_rule and rule.edit *)

RuleIds == {guildRules[i].id : i \in 1..Len(guildRules)}

\* the rule with this id, as the store holds it now
StoredRule(id) == guildRules[CHOOSE i \in 1..Len(guildRules) : guildRules[i].id = id]

\* guild.fetch_automod_rule(id) finds the rule (it raises discord.NotFound otherwise)
Found(ref) == ref \in RuleIds

\* AutoModRuleTransformer.transform: the rule fetched by id, or None when
\* discord.NotFound is raised (the command body then never runs)
Transform(ref) == IF Found(ref) THEN StoredRule(ref) ELSE None

\* rule.edit(trigger=...): the store replaces the whole trigger of that rule
ReplaceTrigger(rules, id, trigger) ==
    [i \in 1..Len(rules) |->
        IF rules[i].id = id THEN [rules[i] EXCEPT !.trigger = trigger] ELSE rules[i]]

\* the text of the discord.HTTPException a refused edit raises
HTTPExceptionText == "400 Bad Request"

----------------------------------------------------------------------------
(* add_keyword and delete_keyword, up to their await on rule.edit *)

\* the list the regex flag selects
Selected(trigger, regex) ==
    IF regex THEN trigger.regex_patterns ELSE trigger.keyword_filter

\* the trigger with the selected list set to lst (the list object is mutated in place)
WithSelected(trigger, regex, lst) ==
    IF regex THEN [trigger EXCEPT !.regex_patterns = lst]
    ELSE [trigger EXCEPT !.keyword_filter = lst]

\* What a command body leaves behind: the rule object it holds, whether it goes
\* on to call rule.edit, and otherwise the outcome and the message it sent.
Step(rule, toEdit, outcome, message) ==
    [rule |-> rule, toEdit |-> toEdit, outcome |-> outcome, message |-> message]

\* add_keyword looking for the duplicate in keyword_filter whatever the flag
AddKeywordBodyWrongList(rule, keyword, regex) ==
    IF rule.trigger.type # "keyword"
    THEN Step(rule, FALSE, "WrongTriggerType",
              "This automod rule doesn't have a keyword filter.")
    ELSE IF InList(keyword, rule.trigger.keyword_filter)
    THEN Step(rule, FALSE, "DuplicateEntry", "This keyword is already in the filter.")
    ELSE Step([rule EXCEPT !.trigger =
                   WithSelected(rule.trigger, regex,
                                ListAppend(Selected(rule.trigger, regex), keyword))],
              TRUE, None, None)

\* add_keyword without the duplicate check
AddKeywordBodyNoCheck(rule, keyword, regex) ==
    IF rule.trigger.type # "keyword"
    THEN Step(rule, FALSE, "WrongTriggerType",
              "This automod rule doesn't have a keyword filter.")
    ELSE Step([rule EXCEPT !.trigger =
                   WithSelected(rule.trigger, regex,
                                ListAppend(Selected(rule.trigger, regex), keyword))],
              TRUE, None, None)

\* add_keyword, lines 104-118
AddKeywordBody(rule, keyword, regex) ==
    IF rule.trigger.type # "keyword"
    THEN Step(rule, FALSE, "WrongTriggerType",
              "This automod rule doesn't have a keyword filter.")
    ELSE IF regex
    THEN IF InList(keyword, rule.trigger.regex_patterns)
         THEN Step(rule, FALSE, "DuplicateEntry",
                   "This regex expression is already in the filter.")
         ELSE Step([rule EXCEPT !.trigger.regex_patterns =
                                    ListAppend(rule.trigger.regex_patterns, keyword)],
                   TRUE, None, None)
    ELSE IF InList(keyword, rule.trigger.keyword_filter)
         THEN Step(rule, FALSE, "DuplicateEntry",
                   "This keyword is already in the filter.")
         ELSE Step([rule EXCEPT !.trigger.keyword_filter =
                                    ListAppend(rule.trigger.keyword_filter, keyword)],
                   TRUE, None, None)

\* delete_keyword without the trigger type guard
DeleteKeywordBodyNoGuard(rule, keyword, regex) ==
    IF ~InList(keyword, Selected(rule.trigger, regex))
    THEN Step(rule, FALSE, "EntryNotFound",
              IF regex THEN "This regex expression is not in the filter."
              ELSE "This keyword is not in the filter.")
    ELSE Step([rule EXCEPT !.trigger =
                   WithSelected(rule.trigger, regex,
                                ListRemove(Selected(rule.trigger, regex), keyword))],
              TRUE, None, None)

\* delete_keyword looking for the entry in keyword_filter whatever the flag
DeleteKeywordBodyWrongList(rule, keyword, regex) ==
    IF rule.trigger.type # "keyword"
    THEN Step(rule, FALSE, "WrongTriggerType",
              "This AutoMod rule doesn't have a keyword filter.")
    ELSE IF ~InList(keyword, rule.trigger.keyword_filter)
    THEN Step(rule, FALSE, "EntryNotFound", "This keyword is not in the filter.")
    ELSE Step([rule EXCEPT !.trigger.keyword_filter =
                               ListRemove(rule.trigger.keyword_filter, keyword)],
              TRUE, None, None)

\* delete_keyword, lines 143-156
DeleteKeywordBody(rule, keyword, regex) ==
    IF rule.trigger.type # "keyword"
    THEN Step(rule, FALSE, "WrongTriggerType",
              "This AutoMod rule doesn't have a keyword filter.")
    ELSE IF regex
    THEN IF ~InList(keyword, rule.trigger.regex_patterns)
         THEN Step(rule, FALSE, "EntryNotFound",
                   "This regex expression is not in the filter.")
         ELSE Step([rule EXCEPT !.trigger.regex_patterns =
                                    ListRemove(rule.trigger.regex_patterns, keyword)],
                   TRUE, None, None)
    ELSE IF ~InList(keyword, rule.trigger.keyword_filter)
         THEN Step(rule, FALSE, "EntryNotFound",
                   "This keyword is not in the filter.")
         ELSE Step([rule EXCEPT !.trigger.keyword_filter =
                                    ListRemove(rule.trigger.keyword_filter, keyword)],
                   TRUE, None, None)

\* an invocation that has not arrived yet
NoOp ==
    [pc |-> "idle", command |-> None, ref |-> None, keyword |-> None, regex |-> FALSE,
     fetched |-> None, fetchedAt |-> 0, rule |-> None, outcome |-> None, message |-> None]

\* invocations are numbered in arrival order
Arrives(o) == ops[o].pc = "idle" /\ \A p \in 1..(o - 1) : ops[p].pc # "idle"

\* The state of invocation o after the transformer has fetched the rule and the
\* command body has run up to its first await. When the transformer raises, the
\* command callback is never called and holds nothing.
Invoked(o, command, ref, keyword, regex, body) ==
    IF ~Found(ref)
    THEN [NoOp EXCEPT !.pc = "done", !.command = command, !.ref = ref,
                      !.outcome = "NotFound", !.message = "Automod rule not found."]
    ELSE [NoOp EXCEPT !.pc = IF body.toEdit THEN "edit" ELSE "done",
                      !.command = command, !.ref = ref, !.keyword = keyword,
                      !.regex = regex, !.fetchedAt = Len(edits),
                      !.fetched = Transform(ref), !.rule = body.rule,
                      !.outcome = body.outcome, !.message = body.message]

\* /add_keyword rule:<ref> keyword:<keyword> regex:<regex>
AddKeyword(o, ref, keyword, regex) ==
    /\ Arrives(o)
    /\ ops' = [ops EXCEPT ![o] =
                  Invoked(o, "add_keyword", ref, keyword, regex,
                          IF ~Found(ref) THEN None
                          ELSE AddKeywordBody(Transform(ref), keyword, regex))]
    /\ UNCHANGED <<guildRules, edits, search, choices, reactorVars>>

\* /delete_keyword rule:<ref> keyword:<keyword> regex:<regex>
DeleteKeyword(o, ref, keyword, regex) ==
    /\ Arrives(o)
    /\ ops' = [ops EXCEPT ![o] =
                  Invoked(o, "delete_keyword", ref, keyword, regex,
                          IF ~Found(ref) THEN None
                          ELSE DeleteKeywordBody(Transform(ref), keyword, regex))]
    /\ UNCHANGED <<guildRules, edits, search, choices, reactorVars>>

----------------------------------------------------------------------------
(* The await on rule.edit(trigger=rule.trigger) and what follows it *)

\* the command's change applied to the trigger the store holds at the time of
\* the edit, in place of the trigger of the rule object fetched earlier
EditArgumentMerged(o) ==
    LET current == StoredRule(ops[o].rule.id).trigger
        lst == Selected(current, ops[o].regex)
        has == InList(ops[o].keyword, lst)
    IN  IF ops[o].command = "add_keyword"
        THEN (IF has THEN current
              ELSE WithSelected(current, ops[o].regex, ListAppend(lst, ops[o].keyword)))
        ELSE (IF has
              THEN WithSelected(current, ops[o].regex, ListRemove(lst, ops[o].keyword))
              ELSE current)

\* the trigger a command passes to rule.edit: the trigger of the rule object it holds
EditArgument(o) == ops[o].rule.trigger

EditCall(o, accepted) ==
    [op |-> o, rule |-> ops[o].rule.id, trigger |-> EditArgument(o), accepted |-> accepted]

\* the store accepts the edit
EditAccepted(o, message) ==
    /\ guildRules' = ReplaceTrigger(guildRules, ops[o].rule.id, EditArgument(o))
    /\ edits' = Append(edits, EditCall(o, TRUE))
    /\ ops' = [ops EXCEPT ![o].pc = "done", ![o].outcome = "Success",
                          ![o].message = message]
    /\ UNCHANGED <<search, choices, reactorVars>>

\* a refused edit that is tried again: the invocation stays at its rule.edit call
EditRefusedRetry(o, message) ==
    /\ edits' = Append(edits, EditCall(o, FALSE))
    /\ ops' = [ops EXCEPT ![o].message = message]
    /\ UNCHANGED <<guildRules, search, choices, reactorVars>>

\* the store refuses the edit: rule.edit raises discord.HTTPException
EditRefused(o, message) ==
    /\ edits' = Append(edits, EditCall(o, FALSE))
    /\ ops' = [ops EXCEPT ![o].pc = "done", ![o].outcome = "RemoteRejected",
                          ![o].message = message]
    /\ UNCHANGED <<guildRules, search, choices, reactorVars>>

\* add_keyword, lines 120-126
AddKeywordEdit(o) ==
    /\ ops[o].pc = "edit"
    /\ ops[o].command = "add_keyword"
    /\ \/ EditAccepted(o, "Added keyword " \o ops[o].keyword \o " to "
                           \o ops[o].rule.name \o " Automod rule succesfully.")
       \/ EditRefused(o, "Failed to add keyword: " \o HTTPExceptionText \o ".")

\* delete_keyword, lines 158-164
DeleteKeywordEdit(o) ==
    /\ ops[o].pc = "edit"
    /\ ops[o].command = "delete_keyword"
    /\ \/ EditAccepted(o, "Deleted keyword " \o ops[o].keyword \o " from "
                           \o ops[o].rule.name \o " automod rule succesfully.")
       \/ EditRefused(o, "Failed to delete keyword: " \o HTTPExceptionText \o ".")

----------------------------------------------------------------------------
(* search_keyword *)

\* A Python dict as its items in insertion order: assigning to a key that is
\* already there keeps the key's place and replaces its value.
DictHas(d, key) == \E i \in 1..Len(d) : d[i].key = key

DictGet(d, key) == d[CHOOSE i \in 1..Len(d) : d[i].key = key].value

DictSet(d, key, value) ==
    IF DictHas(d, key)
    THEN [i \in 1..Len(d) |-> IF d[i].key = key THEN [d[i] EXCEPT !.value = value]
                                                ELSE d[i]]
    ELSE Append(d, [key |-> key, value |-> value])

\* sep.join(lst)
RECURSIVE Join(_, _)
Join(sep, lst) ==
    IF Len(lst) = 0 THEN ""
    ELSE IF Len(lst) = 1 THEN lst[1]
    ELSE lst[1] \o sep \o Join(sep, Tail(lst))

\* lines 74-77: the loop over one rule's keyword_filter, from keyword k on;
\* acc holds count and matches
RECURSIVE ScanKeywords(_, _, _, _)
ScanKeywords(rule, word, k, acc) ==
    IF k > Len(rule.trigger.keyword_filter) THEN acc
    ELSE LET keyword == rule.trigger.keyword_filter[k]
         IN  ScanKeywords(rule, word, k + 1,
                 IF InStr(word, keyword)
                 THEN [count |-> acc.count + 1,
                       matches |-> DictSet(acc.matches, rule.name,
                                       Append(DictGet(acc.matches, rule.name),
                                              keyword \o " contains " \o word))]
                 ELSE acc)

\* the loop over the rules without the trigger type test of line 71
RECURSIVE ScanRulesNoSkip(_, _, _, _)
ScanRulesNoSkip(rules, word, r, acc) ==
    IF r > Len(rules) THEN acc
    ELSE ScanRulesNoSkip(rules, word, r + 1,
             ScanKeywords(rules[r], word, 1,
                 [acc EXCEPT !.matches = DictSet(acc.matches, rules[r].name, <<>>)]))

\* lines 70-77: the loop over the fetched rules, from rule r on
RECURSIVE ScanRules(_, _, _, _)
ScanRules(rules, word, r, acc) ==
    IF r > Len(rules) THEN acc
    ELSE ScanRules(rules, word, r + 1,
             IF rules[r].trigger.type # "keyword" THEN acc
             ELSE ScanKeywords(rules[r], word, 1,
                      [acc EXCEPT !.matches = DictSet(acc.matches, rules[r].name, <<>>)]))

\* lines 81-84: the loop that builds text, from dict item m on
RECURSIVE RenderText(_, _, _)
RenderText(matches, m, text) ==
    IF m > Len(matches) THEN text
    ELSE RenderText(matches, m + 1,
             IF Len(matches[m].value) = 0 THEN text
             ELSE "Rule " \o matches[m].key \o ":\n  " \o Join("  \n", matches[m].value))

\* search_keyword testing the rendered text, in place of count, for "no match"
SearchKeywordResultByText(rules, word) ==
    LET acc == ScanRules(rules, word, 1, [count |-> 0, matches |-> <<>>])
        text == RenderText(acc.matches, 1, "")
    IN  IF text = ""
        THEN [word |-> word, count |-> acc.count, matches |-> acc.matches,
              message |-> "No match found.", file |-> FALSE, text |-> ""]
        ELSE [word |-> word, count |-> acc.count, matches |-> acc.matches,
              message |-> ToString(acc.count) \o " matches found.", file |-> TRUE,
              text |-> text]

\* search_keyword, lines 67-86: what the command sends back for this snapshot
SearchKeywordResult(rules, word) ==
    LET acc == ScanRules(rules, word, 1, [count |-> 0, matches |-> <<>>])
    IN  IF acc.count = 0
        THEN [word |-> word, count |-> acc.count, matches |-> acc.matches,
              message |-> "No match found.", file |-> FALSE, text |-> ""]
        ELSE [word |-> word, count |-> acc.count, matches |-> acc.matches,
              message |-> ToString(acc.count) \o " matches found.", file |-> TRUE,
              text |-> RenderText(acc.matches, 1, "")]

\* no search_keyword invocation has answered yet
NoSearch ==
    [word |-> None, count |-> 0, matches |-> <<>>, message |-> None, file |-> FALSE,
     text |-> ""]

\* search_keyword that also notes the search in bot.actions
SearchKeywordLogged(word) ==
    /\ search.message = None
    /\ search' = SearchKeywordResult(guildRules, word)
    /\ actions' = Append(actions, "search:" \o word)
    /\ UNCHANGED <<guildRules, ops, edits, choices, events, kicks>>

\* /search_keyword word:<word>
SearchKeyword(word) ==
    /\ search.message = None
    /\ search' = SearchKeywordResult(guildRules, word)
    /\ UNCHANGED <<guildRules, ops, edits, choices, reactorVars>>

----------------------------------------------------------------------------
(* rules_autocomplete *)

\* app_commands.Choice(name=rule.name, value=str(rule.id))
Choice(rule) == [name |-> rule.name, value |-> ToString(rule.id)]

\* the loop of lines 25-27 without the trigger type test
RECURSIVE FilterChoicesAnyType(_, _, _)
FilterChoicesAnyType(rules, current, r) ==
    IF r > Len(rules) THEN <<>>
    ELSE (IF InStr(current, rules[r].name) THEN <<Choice(rules[r])>> ELSE <<>>)
         \o FilterChoicesAnyType(rules, current, r + 1)

\* lines 24-28: the loop that keeps the keyword rules whose name contains current
RECURSIVE FilterChoices(_, _, _)
FilterChoices(rules, current, r) ==
    IF r > Len(rules) THEN <<>>
    ELSE (IF rules[r].trigger.type = "keyword" /\ InStr(current, rules[r].name)
          THEN <<Choice(rules[r])>> ELSE <<>>)
         \o FilterChoices(rules, current, r + 1)

\* lines 30-31: the comprehension over the keyword rules
RECURSIVE KeywordChoices(_, _)
KeywordChoices(rules, r) ==
    IF r > Len(rules) THEN <<>>
    ELSE (IF rules[r].trigger.type = "keyword" THEN <<Choice(rules[r])>> ELSE <<>>)
         \o KeywordChoices(rules, r + 1)

\* rules_autocomplete, lines 21-31
RulesAutocompleteResult(rules, current) ==
    IF current # "" THEN FilterChoices(rules, current, 1)
    ELSE KeywordChoices(rules, 1)

\* no rules_autocomplete invocation has answered yet
NoChoices == [answered |-> FALSE, current |-> None, list |-> <<>>]

\* the autocomplete of the rule parameter, with what the user has typed so far
RulesAutocomplete(current) ==
    /\ ~choices.answered
    /\ choices' = [answered |-> TRUE, current |-> current,
                   list |-> RulesAutocompleteResult(guildRules, current)]
    /\ UNCHANGED <<guildRules, ops, edits, search, reactorVars>>

----------------------------------------------------------------------------
(* on_automod_action *)

\* action.member: the member of the event, or None when it does not resolve
Member(id) == [resolved |-> TRUE, id |-> id]
NoMember == [resolved |-> FALSE, id |-> 0]

Members == {Member(42), Member(77), NoMember}

\* a handler for an event that has not been reported yet
NoEvent == [pc |-> "idle", rule_id |-> 0, member |-> NoMember, outcome |-> None]

\* events are numbered in arrival order
Reported(e) == events[e].pc = "idle" /\ \A p \in 1..(e - 1) : events[p].pc # "idle"

\* the platform reports an AutoMod action: the handler starts and awaits
\* action.fetch_rule() (line 168)
OnAutomodAction(e, rule_id, member) ==
    /\ Reported(e)
    /\ events' = [events EXCEPT ![e] =
                     [NoEvent EXCEPT !.pc = "fetch_rule", !.rule_id = rule_id,
                                     !.member = member]]
    /\ UNCHANGED <<guildRules, ops, edits, search, choices, actions, kicks>>

\* the test of lines 169-171 that lets any rule name through
ShouldKickAnyName(found, name, member) == found /\ member.resolved

\* the test of lines 169-171 without the test of action.member
ShouldKickAnyMember(found, name, member) == found /\ name = "Scams"

\* lines 169-171: the rule and the member are there and the rule is named Scams
ShouldKick(found, name, member) == found /\ member.resolved /\ name = "Scams"

\* f"wk:{action.member.id}"
ActionTag(member) == "wk:" \o ToString(member.id)

\* a member.kick call: who, why, by which handler, and how long bot.actions
\* was when the call was made
KickCall(e, log) ==
    [member |-> events[e].member.id, reason |-> "Suspicious behavior", event |-> e,
     logged |-> Len(log)]

\* the kick called before the tag is appended
LogAndKickReversed(e) ==
    [actions |-> Append(actions, ActionTag(events[e].member)),
     kicks |-> Append(kicks, KickCall(e, actions))]

\* lines 172-173: append the tag to bot.actions, then call member.kick
LogAndKick(e) ==
    LET log == Append(actions, ActionTag(events[e].member))
    IN  [actions |-> log, kicks |-> Append(kicks, KickCall(e, log))]

\* action.fetch_rule() returns or raises, lines 168-173 up to the await on
\* member.kick: the rule is read from the store as it is now
FetchRuleReturns(e) ==
    /\ events[e].pc = "fetch_rule"
    /\ IF ShouldKick(Found(events[e].rule_id),
                     IF Found(events[e].rule_id) THEN StoredRule(events[e].rule_id).name
                     ELSE None,
                     events[e].member)
       THEN /\ actions' = LogAndKick(e).actions
            /\ kicks' = LogAndKick(e).kicks
            /\ events' = [events EXCEPT ![e].pc = "kick"]
       ELSE /\ events' = [events EXCEPT ![e].pc = "returned", ![e].outcome = "Dropped"]
            /\ UNCHANGED <<actions, kicks>>
    /\ UNCHANGED <<guildRules, ops, edits, search, choices>>

\* a failed kick after which the handler never returns
KickReturnsOrHangs(e) ==
    /\ events[e].pc = "kick"
    /\ \/ events' = [events EXCEPT ![e].pc = "returned", ![e].outcome = "Kicked"]
       \/ events' = [events EXCEPT ![e].pc = "failed", ![e].outcome = "ActuatorError"]
    /\ UNCHANGED <<guildRules, ops, edits, search, choices, actions, kicks>>

\* member.kick returns or raises (line 173): either way the handler ends
KickReturns(e) ==
    /\ events[e].pc = "kick"
    /\ \/ events' = [events EXCEPT ![e].pc = "returned", ![e].outcome = "Kicked"]
       \/ events' = [events EXCEPT ![e].pc = "returned", ![e].outcome = "ActuatorError"]
    /\ UNCHANGED <<guildRules, ops, edits, search, choices, actions, kicks>>

----------------------------------------------------------------------------
(* Specification of the keyword commands: concurrent add_keyword and        *)
(* delete_keyword invocations against one guild                             *)

\* The guild holds a keyword rule and a rule of another trigger type, which
\* carries a keyword list of its own (member_profile triggers do).
InitialGuilds ==
    {<<Rule(1, "Scams", Trigger("keyword", kf, rp)),
       Rule(2, "Spam", Trigger("member_profile", <<"free">>, <<>>))>> :
        kf \in DistinctSeqs(StoredKeywords, MaxInitLen), rp \in {<<>>, <<"money">>}}

Init ==
    /\ guildRules \in InitialGuilds
    /\ ops = [o \in 1..MaxOps |-> NoOp]
    /\ edits = <<>>
    /\ search = NoSearch
    /\ choices = NoChoices
    /\ events = [e \in 1..MaxEvents |-> NoEvent]
    /\ actions = <<>>
    /\ kicks = <<>>

Next ==
    \/ \E o \in 1..MaxOps, ref \in RuleRefs, keyword \in Keywords, regex \in BOOLEAN :
           AddKeyword(o, ref, keyword, regex)
    \/ \E o \in 1..MaxOps, ref \in RuleRefs, keyword \in Keywords, regex \in BOOLEAN :
           DeleteKeyword(o, ref, keyword, regex)
    \/ \E o \in 1..MaxOps : AddKeywordEdit(o)
    \/ \E o \in 1..MaxOps : DeleteKeywordEdit(o)

Spec == Init /\ [][Next]_vars

----------------------------------------------------------------------------
(* Specification of search_keyword: one invocation over every snapshot      *)

SearchKeywords == {"win", "prize", "buy"}

SearchWords == {"", "i", "I", "prize"}

RuleNames == {"Scams", "Spam"}

\* the triggers a fetched rule can carry
SearchTriggers ==
    {Trigger("keyword", kf, rp) :
        kf \in DistinctSeqs(SearchKeywords, MaxInitLen), rp \in {<<>>, <<"i">>}}
    \cup {Trigger("member_profile", <<"win">>, <<>>), Trigger("spam", <<>>, <<>>)}

\* a snapshot of n rules; rule ids follow the fetch order
Snapshot(n, pick) == [i \in 1..n |-> Rule(i, pick[i][1], pick[i][2])]

InitSearch ==
    /\ \E n \in 0..MaxSearchRules :
           \E pick \in [1..n -> RuleNames \X SearchTriggers] :
               guildRules = Snapshot(n, pick)
    /\ ops = [o \in 1..MaxOps |-> NoOp]
    /\ edits = <<>>
    /\ search = NoSearch
    /\ choices = NoChoices
    /\ events = [e \in 1..MaxEvents |-> NoEvent]
    /\ actions = <<>>
    /\ kicks = <<>>

NextSearch == \E word \in SearchWords : SearchKeyword(word)

SpecSearch == InitSearch /\ [][NextSearch]_vars

----------------------------------------------------------------------------
(* Specification of rules_autocomplete: one invocation over every snapshot  *)

\* what the user has typed so far
Partials == {"", "Sc", "am", "sc"}

NextAutocomplete == \E current \in Partials : RulesAutocomplete(current)

SpecAutocomplete == InitSearch /\ [][NextAutocomplete]_vars

----------------------------------------------------------------------------
(* Specification of the listener: concurrent on_automod_action handlers     *)

\* the guild's rules differ in name; the listener reads nothing else of them
ReactorGuilds ==
    {<<Rule(1, first, Trigger("keyword", <<>>, <<>>)),
       Rule(2, second, Trigger("spam", <<>>, <<>>))>> :
        first \in {"Scams", "scams"}, second \in {"Spam", "Scams"}}

InitReactor ==
    /\ guildRules \in ReactorGuilds
    /\ ops = [o \in 1..MaxOps |-> NoOp]
    /\ edits = <<>>
    /\ search = NoSearch
    /\ choices = NoChoices
    /\ events = [e \in 1..MaxEvents |-> NoEvent]
    /\ actions = <<>>
    /\ kicks = <<>>

NextReactor ==
    \/ \E e \in 1..MaxEvents, rule_id \in RuleRefs, member \in Members :
           OnAutomodAction(e, rule_id, member)
    \/ \E e \in 1..MaxEvents : FetchRuleReturns(e)
    \/ \E e \in 1..MaxEvents : KickReturns(e)

SpecReactor == InitReactor /\ [][NextReactor]_vars

\* The event loop resumes a handler once the call it awaits has returned or
\* raised, and both remote calls do one or the other.
FairReactor ==
    \A e \in 1..MaxEvents :
        WF_vars(FetchRuleReturns(e)) /\ WF_vars(KickReturns(e))

SpecReactorFair == InitReactor /\ [][NextReactor]_vars /\ FairReactor

----------------------------------------------------------------------------
(* Specification of the reads among the writes: search_keyword and          *)
(* rules_autocomplete interleaved with a keyword command and a handler of   *)
(* the listener                                                             *)

\* the guilds whose keyword rule has full lists
ReadsGuilds ==
    {g \in InitialGuilds : /\ Len(g[1].trigger.keyword_filter) = MaxInitLen
                           /\ Len(g[1].trigger.regex_patterns) > 0}

InitReads ==
    /\ guildRules \in ReadsGuilds
    /\ ops = [o \in 1..MaxOps |-> NoOp]
    /\ edits = <<>>
    /\ search = NoSearch
    /\ choices = NoChoices
    /\ events = [e \in 1..MaxEvents |-> NoEvent]
    /\ actions = <<>>
    /\ kicks = <<>>

\* the first command and the first event of a behaviour, and the two reads
NextReads ==
    \/ \E word \in SearchWords : SearchKeyword(word)
    \/ \E current \in Partials : RulesAutocomplete(current)
    \/ \E ref \in RuleRefs, keyword \in Keywords, regex \in BOOLEAN :
           AddKeyword(1, ref, keyword, regex)
    \/ \E ref \in RuleRefs, keyword \in Keywords, regex \in BOOLEAN :
           DeleteKeyword(1, ref, keyword, regex)
    \/ AddKeywordEdit(1)
    \/ DeleteKeywordEdit(1)
    \/ \E rule_id \in RuleRefs, member \in Members : OnAutomodAction(1, rule_id, member)
    \/ FetchRuleReturns(1)
    \/ KickReturns(1)

SpecReads == InitReads /\ [][NextReads]_vars

----------------------------------------------------------------------------
(* Observations used by the properties *)

Invocations == 1..MaxOps

\* invocation o got a rule from the transformer and its command body has run
Held(o) == ops[o].pc # "idle" /\ ops[o].outcome # "NotFound"

Finished(o) == ops[o].pc = "done"

\* the rule.edit calls invocation o has made
EditsOf(o) == {i \in 1..Len(edits) : edits[i].op = o}

\* the lists of the rule object the command holds, against those it fetched
SelectedNow(o) == Selected(ops[o].rule.trigger, ops[o].regex)
SelectedFetched(o) == Selected(ops[o].fetched.trigger, ops[o].regex)
OtherNow(o) == Selected(ops[o].rule.trigger, ~ops[o].regex)
OtherFetched(o) == Selected(ops[o].fetched.trigger, ~ops[o].regex)

\* lst without its element at position i
Without(lst, i) == [j \in 1..(Len(lst) - 1) |-> IF j < i THEN lst[j] ELSE lst[j + 1]]

----------------------------------------------------------------------------
(* C1: add_keyword of a text already in the list that the regex flag selects *)
(* ends with DuplicateEntry, has made no rule.edit call, and the rule it     *)
(* holds has both lists as fetched.                                          *)
C1_DuplicateRejected ==
    \A o \in Invocations :
        (/\ Held(o)
         /\ ops[o].command = "add_keyword"
         /\ ops[o].fetched.trigger.type = "keyword"
         /\ InList(ops[o].keyword, SelectedFetched(o)))
        => /\ Finished(o)
           /\ ops[o].outcome = "DuplicateEntry"
           /\ EditsOf(o) = {}
           /\ ops[o].rule.trigger = ops[o].fetched.trigger

\* a literal duplicate and a regex duplicate have both been rejected
C1_Witness ==
    \E a, b \in Invocations :
        /\ ops[a].outcome = "DuplicateEntry" /\ ops[a].regex
        /\ ops[b].outcome = "DuplicateEntry" /\ ~ops[b].regex

(* C2: on a rule whose trigger type is not keyword, add_keyword and          *)
(* delete_keyword end with WrongTriggerType for every text and both regex    *)
(* flags, make no rule.edit call, and leave the rule's trigger as fetched,   *)
(* in the command's rule object and in the store.                            *)
C2_TypeGuard ==
    \A o \in Invocations :
        (Held(o) /\ ops[o].fetched.trigger.type # "keyword")
        => /\ Finished(o)
           /\ ops[o].outcome = "WrongTriggerType"
           /\ EditsOf(o) = {}
           /\ ops[o].rule.trigger = ops[o].fetched.trigger
           /\ StoredRule(ops[o].ref).trigger = ops[o].fetched.trigger

\* an add and a delete, one with each regex flag, were refused on the other rule
C2_Witness ==
    \E a, b \in Invocations :
        /\ ops[a].command = "add_keyword" /\ ops[a].outcome = "WrongTriggerType"
        /\ ops[b].command = "delete_keyword" /\ ops[b].outcome = "WrongTriggerType"
        /\ ops[a].regex # ops[b].regex

(* C3: on a keyword rule, delete_keyword ends with EntryNotFound exactly     *)
(* when the text is absent from the selected list, and then it has made no   *)
(* rule.edit call and holds both lists as fetched; when the text is present  *)
(* it deletes that one entry from that list only and passes the whole        *)
(* trigger to rule.edit, once.                                               *)
C3_DeleteKeyword ==
    \A o \in Invocations :
        (/\ Held(o)
         /\ ops[o].command = "delete_keyword"
         /\ ops[o].fetched.trigger.type = "keyword")
        => IF ~InList(ops[o].keyword, SelectedFetched(o))
           THEN /\ Finished(o)
                /\ ops[o].outcome = "EntryNotFound"
                /\ EditsOf(o) = {}
                /\ ops[o].rule.trigger = ops[o].fetched.trigger
           ELSE /\ ops[o].outcome # "EntryNotFound"
                /\ \E i \in 1..Len(SelectedFetched(o)) :
                      /\ SelectedFetched(o)[i] = ops[o].keyword
                      /\ SelectedNow(o) = Without(SelectedFetched(o), i)
                /\ OtherNow(o) = OtherFetched(o)
                /\ Finished(o) =>
                      /\ Cardinality(EditsOf(o)) = 1
                      /\ \A i \in EditsOf(o) : edits[i].trigger = ops[o].rule.trigger

\* one delete found its entry, which was not the last of its list, and was
\* accepted; another found none
C3_Witness ==
    \E a, b \in Invocations :
        /\ ops[a].command = "delete_keyword" /\ ops[a].outcome = "Success"
        /\ SelectedFetched(a)[Len(SelectedFetched(a))] # ops[a].keyword
        /\ ops[b].command = "delete_keyword" /\ ops[b].outcome = "EntryNotFound"

(* C4: when the store refuses the edit of add_keyword or delete_keyword, the *)
(* command ends with RemoteRejected and the rule object it holds has both    *)
(* lists as they were fetched.                                               *)
C4_RejectedEditRolledBack ==
    \A o \in Invocations :
        (Held(o) /\ ops[o].outcome = "RemoteRejected")
        => ops[o].rule.trigger = ops[o].fetched.trigger

(* C5: no rule in the store has a duplicate entry within keyword_filter or   *)
(* within regex_patterns, whatever the interleaving of commands and whatever *)
(* edits the store refuses.                                                  *)
C5_NoDuplicates ==
    \A r \in 1..Len(guildRules) :
        /\ NoDuplicates(guildRules[r].trigger.keyword_filter)
        /\ NoDuplicates(guildRules[r].trigger.regex_patterns)

\* two adds of the same text fetched the same rule before either edit, and
\* both edits were accepted
C5_Witness ==
    \E a, b \in Invocations :
        /\ a # b
        /\ ops[a].command = "add_keyword" /\ ops[b].command = "add_keyword"
        /\ ops[a].outcome = "Success" /\ ops[b].outcome = "Success"
        /\ ops[a].ref = ops[b].ref
        /\ ops[a].keyword = ops[b].keyword /\ ops[a].regex = ops[b].regex
        /\ ops[a].fetchedAt = 0 /\ ops[b].fetchedAt = 0

\* the accepted rule.edit calls on the rule of call i that came after call i
LaterAccepted(i) ==
    {m \in (i + 1)..Len(edits) : edits[m].accepted /\ edits[m].rule = edits[i].rule}

\* calls i and j are accepted edits of one rule with no accepted edit of it between
Consecutive(i, j) ==
    /\ i < j
    /\ edits[i].accepted
    /\ j \in LaterAccepted(i)
    /\ \A m \in LaterAccepted(i) : m >= j

(* C6: an accepted add_keyword of a text, followed by an accepted            *)
(* delete_keyword of the same text with the same regex flag that fetched the *)
(* rule after the add, with no other accepted edit of the rule in between,   *)
(* leaves the selected list as the add fetched it, same entries in the same  *)
(* order, and the other list unchanged.                                      *)
C6_AddThenDeleteRestores ==
    \A i, j \in 1..Len(edits) :
        LET a == edits[i].op
            b == edits[j].op
        IN  (/\ Consecutive(i, j)
             /\ ops[b].fetchedAt >= i
             /\ ops[a].command = "add_keyword"
             /\ ops[b].command = "delete_keyword"
             /\ ops[a].keyword = ops[b].keyword
             /\ ops[a].regex = ops[b].regex)
            => /\ Selected(edits[j].trigger, ops[a].regex) = SelectedFetched(a)
               /\ Selected(edits[j].trigger, ~ops[a].regex) = OtherFetched(a)
               /\ LaterAccepted(j) = {}
                     => StoredRule(edits[j].rule).trigger = ops[a].fetched.trigger

\* such an add and delete happened on a list that held other entries
C6_Witness ==
    \E i, j \in 1..Len(edits) :
        /\ Consecutive(i, j)
        /\ ops[edits[j].op].fetchedAt >= i
        /\ ops[edits[i].op].command = "add_keyword"
        /\ ops[edits[j].op].command = "delete_keyword"
        /\ ops[edits[i].op].keyword = ops[edits[j].op].keyword
        /\ ops[edits[i].op].regex = ops[edits[j].op].regex
        /\ Len(SelectedFetched(edits[i].op)) = MaxInitLen
        /\ StoredRule(edits[j].rule).trigger = ops[edits[i].op].fetched.trigger

(* C7: the trigger add_keyword passes to rule.edit is the fetched list with  *)
(* the text appended at the end, and the one delete_keyword passes is the    *)
(* fetched list with the first matching entry deleted in place; the other    *)
(* entries keep their order. [free, money] plus prize gives                  *)
(* [free, money, prize], and deleting money from that gives [free, prize].   *)
C7_AppendAndDeleteInPlace ==
    \A i \in 1..Len(edits) :
        LET o == edits[i].op
            before == SelectedFetched(o)
            after == Selected(edits[i].trigger, ops[o].regex)
        IN  /\ ops[o].command = "add_keyword" =>
                  /\ Len(after) = Len(before) + 1
                  /\ after[Len(after)] = ops[o].keyword
                  /\ \A k \in 1..Len(before) : after[k] = before[k]
            /\ ops[o].command = "delete_keyword" =>
                  \E p \in 1..Len(before) :
                      /\ before[p] = ops[o].keyword
                      /\ \A k \in 1..(p - 1) : before[k] # ops[o].keyword
                      /\ after = Without(before, p)
            /\ Selected(edits[i].trigger, ~ops[o].regex) = OtherFetched(o)
            /\ (/\ ops[o].command = "add_keyword" /\ ops[o].keyword = "prize"
                 /\ before = <<"free", "money">>)
               => after = <<"free", "money", "prize">>
            /\ (/\ ops[o].command = "delete_keyword" /\ ops[o].keyword = "money"
                 /\ before = <<"free", "money", "prize">>)
               => after = <<"free", "prize">>

\* the store received [free, money, prize] and then [free, prize]
C7_Witness ==
    /\ Len(edits) = 2
    /\ edits[1].accepted /\ edits[2].accepted
    /\ edits[1].trigger.keyword_filter = <<"free", "money", "prize">>
    /\ edits[2].trigger.keyword_filter = <<"free", "prize">>
    /\ StoredRule(1).trigger.keyword_filter = <<"free", "prize">>

\* the trigger shows the change invocation o set out to make
Reflects(trigger, o) ==
    IF ops[o].command = "add_keyword"
    THEN InList(ops[o].keyword, Selected(trigger, ops[o].regex))
    ELSE ~InList(ops[o].keyword, Selected(trigger, ops[o].regex))

SameChange(a, b) ==
    /\ ops[a].command = ops[b].command
    /\ ops[a].keyword = ops[b].keyword
    /\ ops[a].regex = ops[b].regex

\* calls i and j are accepted edits of one rule, and the invocation of j
\* fetched the rule before call i reached the store
Raced(i, j) ==
    /\ i < j
    /\ edits[i].accepted /\ edits[j].accepted
    /\ edits[i].rule = edits[j].rule
    /\ ops[edits[j].op].fetchedAt < i

(* C8: nothing orders the edits of a rule. When two invocations fetch the    *)
(* rule before either edit reaches the store, both edits can be accepted and *)
(* both invocations report success; the second edit replaces the whole       *)
(* trigger with the one built from its own stale fetch, so the store then    *)
(* lacks the first invocation's change, unless the second makes the same     *)
(* change or had already fetched it: a lost update is reachable.             *)
C8_LostUpdate ==
    \A i, j \in 1..Len(edits) :
        LET a == edits[i].op
            b == edits[j].op
        IN  Raced(i, j)
            => /\ ops[a].outcome = "Success"
               /\ ops[b].outcome = "Success"
               /\ (~SameChange(a, b) /\ ~Reflects(ops[b].fetched.trigger, a))
                     => ~Reflects(edits[j].trigger, a)
               /\ LaterAccepted(j) = {}
                     => StoredRule(edits[j].rule).trigger = edits[j].trigger

\* two invocations fetched the same rule, both edits were accepted, and the
\* store no longer shows the first one's change
C8_Witness ==
    \E i, j \in 1..Len(edits) :
        /\ Raced(i, j)
        /\ ops[edits[i].op].fetched = ops[edits[j].op].fetched
        /\ ops[edits[i].op].outcome = "Success"
        /\ ops[edits[j].op].outcome = "Success"
        /\ Reflects(edits[i].trigger, edits[i].op)
        /\ ~Reflects(StoredRule(edits[j].rule).trigger, edits[i].op)

----------------------------------------------------------------------------
(* search_keyword, under SpecSearch *)

Answered == search.message # None

\* the places (rule, keyword) of the literal keywords of keyword rules that
\* contain the word
LiteralMatches(rules, word) ==
    UNION {{<<r, k>> : k \in {m \in 1..Len(rules[r].trigger.keyword_filter) :
                                InStr(word, rules[r].trigger.keyword_filter[m])}} :
           r \in {n \in 1..Len(rules) : rules[n].trigger.type = "keyword"}}

\* the number of literal keywords of the keyword rules from rule r on
RECURSIVE LiteralKeywords(_, _)
LiteralKeywords(rules, r) ==
    IF r > Len(rules) THEN 0
    ELSE (IF rules[r].trigger.type = "keyword"
          THEN Len(rules[r].trigger.keyword_filter) ELSE 0)
         + LiteralKeywords(rules, r + 1)

(* C9: the count search_keyword reports is the number of literal keywords    *)
(* that contain the word as a case-sensitive substring, over the keyword     *)
(* rules only; regex patterns and rules of other trigger types never count,  *)
(* and the empty word counts every literal keyword of every keyword rule.    *)
C9_SearchCount ==
    Answered =>
        /\ search.count = Cardinality(LiteralMatches(guildRules, search.word))
        /\ search.word = "" => search.count = LiteralKeywords(guildRules, 1)

\* Scams holds win and prize and a pattern with an i, Spam holds buy: "i" counts 2
C9_Witness ==
    /\ guildRules = <<Rule(1, "Scams", Trigger("keyword", <<"win", "prize">>, <<"i">>)),
                      Rule(2, "Spam", Trigger("keyword", <<"buy">>, <<>>))>>
    /\ search.word = "i"
    /\ search.count = 2

(* C10: search_keyword answers "No match found." and sends no listing        *)
(* exactly when no literal keyword of any keyword rule contains the word;    *)
(* otherwise it answers with the count and sends the listing file.           *)
C10_NoMatchOutcome ==
    Answered =>
        IF LiteralMatches(guildRules, search.word) = {}
        THEN search.message = "No match found." /\ ~search.file
        ELSE /\ search.message = ToString(search.count) \o " matches found."
             /\ search.count > 0
             /\ search.file

\* no literal keyword holds the word, though a regex pattern and a rule of
\* another type do
C10_Witness ==
    /\ search.message = "No match found."
    /\ search.word = "i"
    /\ \E r \in 1..Len(guildRules) :
          /\ guildRules[r].trigger.type = "keyword"
          /\ guildRules[r].trigger.keyword_filter = <<"buy">>
          /\ guildRules[r].trigger.regex_patterns = <<"i">>
    /\ \E r \in 1..Len(guildRules) : guildRules[r].trigger.type = "member_profile"

\* the match descriptions of one rule, in keyword order, from keyword k on
RECURSIVE MatchLines(_, _, _)
MatchLines(rule, word, k) ==
    IF k > Len(rule.trigger.keyword_filter) THEN <<>>
    ELSE (IF InStr(word, rule.trigger.keyword_filter[k])
          THEN <<rule.trigger.keyword_filter[k] \o " contains " \o word>>
          ELSE <<>>)
         \o MatchLines(rule, word, k + 1)

\* the keyword rules of the snapshot with at least one match
MatchingRules(rules, word) == {rk[1] : rk \in LiteralMatches(rules, word)}

\* the last of them in the snapshot's order
LastMatchingRule(rules, word) ==
    CHOOSE r \in MatchingRules(rules, word) : \A q \in MatchingRules(rules, word) : q <= r

\* the listing of one rule's matches
Listing(rule, word) ==
    "Rule " \o rule.name \o ":\n  " \o Join("  \n", MatchLines(rule, word, 1))

(* C11: when search_keyword finds a match, the listing it sends is that of   *)
(* exactly one rule, the last rule in the snapshot's order with at least one *)
(* match, with that rule's matches in keyword order, for every snapshot,     *)
(* rules that share a name included.                                         *)
C11_ListingOfLastMatchingRule ==
    (Answered /\ search.file)
    => search.text = Listing(guildRules[LastMatchingRule(guildRules, search.word)],
                             search.word)

\* the sum of the lengths of the per-rule lists, from dict item m on
RECURSIVE ListedMatches(_, _)
ListedMatches(matches, m) ==
    IF m > Len(matches) THEN 0
    ELSE Len(matches[m].value) + ListedMatches(matches, m + 1)

(* C19: in the result search_keyword builds, the count equals the sum of the *)
(* lengths of the per-rule match lists, also when two keyword rules have the *)
(* same name; a count above zero comes with a non-empty list to render.      *)
C19_CountIsSumOfLists ==
    Answered =>
        /\ search.count = ListedMatches(search.matches, 1)
        /\ search.count > 0 =>
              \E m \in 1..Len(search.matches) : Len(search.matches[m].value) > 0

----------------------------------------------------------------------------
(* add_keyword and delete_keyword, under Spec *)

(* C14: an add_keyword or delete_keyword invocation makes at most one        *)
(* rule.edit call; a refused edit is not tried again: the invocation reports *)
(* the failure and has returned, with that one refused call as its only one. *)
C14_AtMostOneEdit ==
    \A o \in Invocations :
        /\ Cardinality(EditsOf(o)) <= 1
        /\ (\E i \in EditsOf(o) : ~edits[i].accepted)
              => /\ Finished(o)
                 /\ ops[o].outcome = "RemoteRejected"
                 /\ ops[o].message \in
                       {"Failed to add keyword: " \o HTTPExceptionText \o ".",
                        "Failed to delete keyword: " \o HTTPExceptionText \o "."}
        /\ ops[o].pc = "edit" => EditsOf(o) = {}

\* every invocation of the behaviour had its edit refused and has returned
C14_Witness ==
    \A o \in Invocations :
        /\ ops[o].outcome = "RemoteRejected"
        /\ Cardinality(EditsOf(o)) = 1

(* C20: add_keyword and delete_keyword read and change only the list the     *)
(* regex flag selects: the duplicate and absence checks are decided by that  *)
(* list alone and the other list is unchanged in the rule object and in the  *)
(* trigger passed to rule.edit; so a text can be in both lists, and deleting *)
(* it from one leaves it in the other.                                       *)
C20_OnlySelectedList ==
    \A o \in Invocations :
        (Held(o) /\ ops[o].fetched.trigger.type = "keyword")
        => /\ ops[o].command = "add_keyword" =>
                 (ops[o].outcome = "DuplicateEntry"
                    <=> InList(ops[o].keyword, SelectedFetched(o)))
           /\ ops[o].command = "delete_keyword" =>
                 (ops[o].outcome = "EntryNotFound"
                    <=> ~InList(ops[o].keyword, SelectedFetched(o)))
           /\ OtherNow(o) = OtherFetched(o)
           /\ \A i \in EditsOf(o) :
                 Selected(edits[i].trigger, ~ops[o].regex) = OtherFetched(o)

\* a text already among the regex patterns was added to the keywords, then
\* deleted from the regex patterns, and the store still has it as a keyword
C20_Witness ==
    \E a, b \in Invocations :
        /\ ops[a].command = "add_keyword" /\ ops[a].outcome = "Success"
        /\ ~ops[a].regex
        /\ InList(ops[a].keyword, OtherFetched(a))
        /\ ops[b].command = "delete_keyword" /\ ops[b].outcome = "Success"
        /\ ops[b].regex
        /\ ops[b].keyword = ops[a].keyword
        /\ InList(ops[b].keyword, OtherFetched(b))
        /\ InList(ops[b].keyword, StoredRule(ops[b].ref).trigger.keyword_filter)
        /\ ~InList(ops[b].keyword, StoredRule(ops[b].ref).trigger.regex_patterns)

----------------------------------------------------------------------------
(* rules_autocomplete, under SpecAutocomplete *)

\* the keyword rules of the snapshot whose name contains the input
Suggested(rules, current) ==
    {r \in 1..Len(rules) :
        rules[r].trigger.type = "keyword" /\ InStr(current, rules[r].name)}

\* the place in the snapshot of the rule a choice stands for
RuleOfChoice(rules, choice) ==
    CHOOSE r \in 1..Len(rules) : ToString(rules[r].id) = choice.value

(* C12: rules_autocomplete returns exactly the keyword rules whose name      *)
(* contains the input as a case-sensitive substring, as (name, id) choices   *)
(* in the snapshot's order; with an empty input it returns every keyword     *)
(* rule, and a rule of another trigger type is never among the choices.      *)
C12_Autocomplete ==
    choices.answered =>
        LET list == choices.list
            want == Suggested(guildRules, choices.current)
        IN  /\ Len(list) = Cardinality(want)
            /\ \A i \in 1..Len(list) :
                  /\ \E r \in want : list[i] = [name |-> guildRules[r].name,
                                                value |-> ToString(guildRules[r].id)]
            /\ \A i, j \in 1..Len(list) :
                  i < j => RuleOfChoice(guildRules, list[i])
                             < RuleOfChoice(guildRules, list[j])
            /\ choices.current = "" =>
                  Len(list) = Cardinality({r \in 1..Len(guildRules) :
                                              guildRules[r].trigger.type = "keyword"})

\* "am" is in Scams and in Spam: both keyword rules are suggested, in order,
\* and not the rule of another type
C12_Witness ==
    /\ choices.answered
    /\ choices.current = "am"
    /\ Len(guildRules) = MaxSearchRules
    /\ guildRules[1].trigger.type = "keyword" /\ guildRules[1].name = "Spam"
    /\ guildRules[MaxSearchRules].trigger.type = "keyword"
    /\ guildRules[MaxSearchRules].name = "Scams"
    /\ choices.list[1] = [name |-> "Spam", value |-> "1"]
    /\ Len(choices.list) >= 2

----------------------------------------------------------------------------
(* on_automod_action, under SpecReactor *)

Handlers == 1..MaxEvents

\* the member.kick calls handler e has made
KicksOf(e) == {k \in 1..Len(kicks) : kicks[k].event = e}

\* the handler is past its await on action.fetch_rule()
Resolved(e) == events[e].pc \in {"kick", "returned"}

\* the rule of the event is in the guild, it is named Scams, and the member resolves
PassesGate(e) ==
    /\ Found(events[e].rule_id)
    /\ StoredRule(events[e].rule_id).name = "Scams"
    /\ events[e].member.resolved

(* C13: for every AutoMod action event the listener calls member.kick if and *)
(* only if the rule resolves, the member resolves and the rule is named      *)
(* Scams; then it calls it exactly once, on that member, with the reason     *)
(* "Suspicious behavior"; in every other case it makes no call.              *)
C13_KickGate ==
    \A e \in Handlers :
        /\ (Resolved(e) /\ PassesGate(e))
             => /\ Cardinality(KicksOf(e)) = 1
                /\ \A k \in KicksOf(e) :
                      /\ kicks[k].member = events[e].member.id
                      /\ kicks[k].reason = "Suspicious behavior"
        /\ ~(Resolved(e) /\ PassesGate(e)) => KicksOf(e) = {}

\* member 42 was kicked once for the rule named Scams, and the event of
\* another rule has returned without a kick
C13_Witness ==
    \E e, f \in Handlers :
        /\ events[e].outcome = "Kicked" /\ events[e].member.id = 42
        /\ Cardinality(KicksOf(e)) = 1
        /\ events[f].pc = "returned" /\ events[f].member.resolved
        /\ Found(events[f].rule_id)
        /\ StoredRule(events[f].rule_id).name = "Spam"
        /\ KicksOf(f) = {}

(* C16: for an event that passes the gate the tag "wk:<member id>" is in     *)
(* bot.actions before member.kick is called, so there are never more kick    *)
(* calls than tags in the log, and the tag stays when the kick fails.        *)
C16_TagBeforeKick ==
    /\ Len(kicks) <= Len(actions)
    /\ \A k \in 1..Len(kicks) :
          /\ kicks[k].logged <= Len(actions)
          /\ \E i \in 1..kicks[k].logged :
                actions[i] = "wk:" \o ToString(kicks[k].member)
    /\ \A e \in Handlers :
          events[e].outcome = "ActuatorError"
          => \E i \in 1..Len(actions) :
                actions[i] = "wk:" \o ToString(events[e].member.id)

\* a kick of member 42 failed and "wk:42" is in the log
C16_Witness ==
    \E e \in Handlers :
        /\ events[e].outcome = "ActuatorError"
        /\ events[e].member.id = 42
        /\ \E i \in 1..Len(actions) : actions[i] = "wk:42"

(* C18: when the rule or the member of an event does not resolve, or the     *)
(* rule is not named Scams, the listener drops the event with no side        *)
(* effect: nothing is appended to bot.actions for it, no member.kick call is *)
(* made, and the rule store receives no edit.                                *)
C18_DropWithoutEffect ==
    /\ \A e \in Handlers :
          (Resolved(e) /\ ~PassesGate(e))
          => /\ events[e].pc = "returned"
             /\ events[e].outcome = "Dropped"
             /\ KicksOf(e) = {}
    /\ Len(actions) = Cardinality({e \in Handlers : Resolved(e) /\ PassesGate(e)})
    /\ edits = <<>>

\* an event without a member, one with a rule that is gone and one with a
\* rule of another name were dropped, and the log is empty
C18_Witness ==
    /\ \E e \in Handlers : events[e].outcome = "Dropped" /\ ~events[e].member.resolved
                             /\ Found(events[e].rule_id)
                             /\ StoredRule(events[e].rule_id).name = "Scams"
    /\ \E e \in Handlers : events[e].outcome = "Dropped" /\ events[e].member.resolved
                             /\ (~Found(events[e].rule_id)
                                 \/ StoredRule(events[e].rule_id).name # "Scams")
    /\ actions = <<>>
    /\ kicks = <<>>

(* C17: every event that puts the listener in Resolving (its handler awaits  *)
(* the rule) brings it back to Idle (the handler has returned), whether the  *)
(* event is dropped, the kick succeeds or the kick fails; a failed kick is   *)
(* not tried again. Checked under SpecReactorFair.                           *)
C17_BackToIdle ==
    /\ \A e \in Handlers :
          (events[e].pc = "fetch_rule") ~> (events[e].pc = "returned")
    /\ [](\A e \in Handlers : Cardinality(KicksOf(e)) <= 1)

\* handlers have returned after a drop and after a failed kick
C17_Witness ==
    \E e, f \in Handlers :
        /\ events[e].pc = "returned" /\ events[e].outcome = "ActuatorError"
        /\ Cardinality(KicksOf(e)) = 1
        /\ events[f].pc = "returned" /\ events[f].outcome = "Dropped"

----------------------------------------------------------------------------
(* search_keyword and rules_autocomplete among the writes, under SpecReads *)

(* C15: search_keyword and rules_autocomplete only read: whatever else is in *)
(* flight, a step in which one of them answers makes no rule.edit call and   *)
(* leaves every rule of the store, bot.actions and the member.kick calls as  *)
(* they were.                                                                *)
C15_ReadsArePure ==
    [][(search' # search \/ choices' # choices)
         => /\ guildRules' = guildRules
            /\ edits' = edits
            /\ actions' = actions
            /\ kicks' = kicks]_vars

\* both reads answered after the store took an edit and the log a tag, and
\* the search saw the edited rule
C15_Witness ==
    /\ Answered
    /\ choices.answered
    /\ Len(edits) > 0 /\ edits[1].accepted
    /\ Len(actions) > 0
    /\ Len(kicks) > 0
    /\ search.word = ""
    /\ search.count = Len(edits[1].trigger.keyword_filter)
    /\ search.count # MaxInitLen

====
